---- MODULE Spec2Model ----
(***************************************************************************)
(* Model of the placement candidate-set algebra (RPCandidateList,          *)
(* src/placement/objects/rp_candidates.py) and of the consumer / ownership *)
(* operations (src/placement/objects/consumer.py) as they act on the graph *)
(* store.                                                                  *)
(***************************************************************************)
EXTENDS Integers, Sequences, FiniteSets, TLC

VARIABLES
    rp_candidates,  \* list name -> the set of RPCandidate triples it is bound to
    aliased,        \* TRUE when both lists are bound to the SAME Python set object
    last_call,      \* the RPCandidateList method that ran last, and on which list
    merged,         \* trees of the lists merged into "self" since it was constructed
    consumers,      \* graph store: uuid -> the CONSUMER nodes with it, their properties
    owns,           \* graph store: how many [:OWNS] relationships run from a node to a node
    objs,           \* the Consumer object each caller holds: uuid, generation, timestamps
    frame,          \* each caller's running increment_generation call
    res,            \* each caller's latest increment_generation call and how it ended
    db_call,        \* the consumer operation that ran last
    uses,           \* graph store: how many [:USES] relationships leave a CONSUMER node
    rel,            \* each caller's running or latest relate_project_and_user call (or ensure_consumer)
    clock           \* graph store: the millisecond timestamp() gave last

rpVars == <<rp_candidates, aliased, last_call, merged>>

dbVars == <<consumers, owns, objs, frame, res, db_call, uses, rel, clock>>

vars == <<rp_candidates, aliased, last_call, merged,
          consumers, owns, objs, frame, res, db_call, uses, rel, clock>>

----------------------------------------------------------------------------
(* Resource providers: p2 is a child of p1; p1 and p3 are roots.           *)

UUIDs == {"p1", "p2", "p3"}

RCNames == {"DISK_GB", "VCPU"}

RootOf(p) == IF p = "p2" THEN "p1" ELSE p

\* (resource provider UUID, anchor root provider UUID) tuples, as add_rps takes them
RPTuples == {<<p, RootOf(p)>> : p \in UUIDs}

RPCandidate(uuid, root_uuid, rc_name) ==
    [uuid |-> uuid, root_uuid |-> root_uuid, rc_name |-> rc_name]

AllCandidates == {RPCandidate(t[1], t[2], rc) : t \in RPTuples, rc \in RCNames}

Lists == {"self", "other"}

\* How many per-resource-class lists are merged into one accumulator
MaxMerges == 3

----------------------------------------------------------------------------
(* The pure part of RPCandidateList: each method as a function of the set. *)

rps(cands) == {p.uuid : p \in cands}

trees(cands) == {p.root_uuid : p \in cands}

all_rps_inter(cands) == rps(cands) \cap trees(cands)

all_rps(cands) == rps(cands) \cup trees(cands)

add_rps(cands, rptuples, rc_name) ==
    cands \cup {RPCandidate(rp[1], rp[2], rc_name) : rp \in rptuples}

filter_by_tree(cands, tree_root_ids) ==
    {p \in cands : p.root_uuid \in tree_root_ids}

filter_by_rp(cands, rptuples) ==
    {p \in cands : <<p.uuid, p.root_uuid>> \in rptuples}

filter_by_rp_or_tree(cands, rp_uuids) ==
    {p \in cands : ({p.uuid, p.root_uuid} \cap rp_uuids) # {}}

filter_by_rp_nor_tree_uuid_only(cands, rp_uuids) ==
    {p \in cands : ~(p.uuid \in rp_uuids)}

filter_by_rp_nor_tree(cands, rp_uuids) ==
    {p \in cands : ~(({p.uuid, p.root_uuid} \cap rp_uuids) # {})}

merge_common_trees_no_union(cands, other) ==
    IF cands = {} THEN other
    ELSE IF other = {} THEN cands
    ELSE filter_by_tree(cands, trees(cands) \cap trees(other))

merge_common_trees_no_empty_check(cands, other) ==
    filter_by_tree(cands \cup other, trees(cands) \cap trees(other))

\* The value "self" holds after self.merge_common_trees(other)
merge_common_trees(cands, other) ==
    IF cands = {} THEN other
    ELSE IF other = {} THEN cands
    ELSE LET trees_in_both == trees(cands) \cap trees(other)
         IN  filter_by_tree(cands \cup other, trees_in_both)

----------------------------------------------------------------------------
(* The lists as Python objects.  `x.rp_candidates |= s` updates the set    *)
(* object in place, so a list bound to the same object sees the change;    *)
(* `x.rp_candidates = set(...)` binds x to a new object.                   *)

Peer(l) == IF l = "self" THEN "other" ELSE "self"

\* in-place update of the set object bound to l
InPlace(l, new) ==
    IF aliased THEN [m \in Lists |-> new]
    ELSE [rp_candidates EXCEPT ![l] = new]

\* l is bound to a fresh set object
Rebind(l, new) == [rp_candidates EXCEPT ![l] = new]

Called(op, l) == [op |-> op, on |-> l]

\* RPCandidateList(): a new, empty list takes the place of l
Construct(l) ==
    /\ rp_candidates' = Rebind(l, {})
    /\ aliased' = FALSE
    /\ last_call' = Called("__init__", l)
    /\ merged' = IF l = "self" THEN <<>> ELSE merged
    /\ UNCHANGED dbVars

AddRps(l, rptuples, rc_name) ==
    /\ rp_candidates' = InPlace(l, add_rps(rp_candidates[l], rptuples, rc_name))
    /\ aliased' = aliased
    /\ last_call' = Called("add_rps", l)
    /\ UNCHANGED merged
    /\ UNCHANGED dbVars

FilterByTree(l, tree_root_ids) ==
    /\ rp_candidates' = Rebind(l, filter_by_tree(rp_candidates[l], tree_root_ids))
    /\ aliased' = FALSE
    /\ last_call' = Called("filter_by_tree", l)
    /\ UNCHANGED merged
    /\ UNCHANGED dbVars

FilterByRp(l, rptuples) ==
    /\ rp_candidates' = Rebind(l, filter_by_rp(rp_candidates[l], rptuples))
    /\ aliased' = FALSE
    /\ last_call' = Called("filter_by_rp", l)
    /\ UNCHANGED merged
    /\ UNCHANGED dbVars

FilterByRpOrTree(l, rp_uuids) ==
    /\ rp_candidates' = Rebind(l, filter_by_rp_or_tree(rp_candidates[l], rp_uuids))
    /\ aliased' = FALSE
    /\ last_call' = Called("filter_by_rp_or_tree", l)
    /\ UNCHANGED merged
    /\ UNCHANGED dbVars

FilterByRpNorTree(l, rp_uuids) ==
    /\ rp_candidates' = Rebind(l, filter_by_rp_nor_tree(rp_candidates[l], rp_uuids))
    /\ aliased' = FALSE
    /\ last_call' = Called("filter_by_rp_nor_tree", l)
    /\ UNCHANGED merged
    /\ UNCHANGED dbVars

\* l.merge_common_trees(o), o the other list
MergeCall(l) ==
    LET o == Peer(l)
        mine == rp_candidates[l]
        theirs == rp_candidates[o]
    IN  /\ rp_candidates' = Rebind(l, merge_common_trees(mine, theirs))
        /\ aliased' = IF mine = {} THEN TRUE
                      ELSE IF theirs = {} THEN aliased
                      ELSE FALSE
        /\ last_call' = Called("merge_common_trees", l)
        /\ UNCHANGED dbVars

MergeCommonTrees(l) == MergeCall(l) /\ UNCHANGED merged

InitRP ==
    /\ rp_candidates = [l \in Lists |-> {}]
    /\ aliased = FALSE
    /\ last_call = Called("__init__", "self")
    /\ merged = <<>>

----------------------------------------------------------------------------
(* The graph store and the Consumer objects.                               *)

ProjectUUIDs == {"pj1", "pj2"}

UserUUIDs == {"u1", "u2"}

ConsumerUUIDs == {"c1", "c2"}

Callers == {"a", "b"}

\* Consumer(ctx, generation=None): the generation is unspecified
None == -1

\* Generations are counted up to this value
MaxGen == 2

\* Allocations ([:USES] relationships) of one consumer are counted up to this value
MaxAllocs == 2

\* a uuid that is None: no user set on the object, no node matched by a query
NoUuid == "None"

\* CONSUMER nodes with one uuid are counted up to this value: create() adds a
\* node unless one with the uuid has the generation and timestamps it names
MaxNodes == 2

\* [:OWNS] relationships between the same two nodes are counted up to this
\* value: update() creates one for every relationship it deletes
MaxRels == 2

\* timestamp() values are counted up to this value
MaxTime == 2

\* The [:OWNS] relationships the queries create or match, <<from, to, node>>:
\* project -> user (node 0), user -> the node-th CONSUMER node with a uuid as
\* relate_project_and_user writes them, and project -> CONSUMER node as
\* _get_consumer_by_uuid reads them
Edges == (ProjectUUIDs \X UserUUIDs \X {0})
            \cup (UserUUIDs \X ConsumerUUIDs \X (1..MaxNodes))
            \cup (ProjectUUIDs \X ConsumerUUIDs \X (1..MaxNodes))

\* The (user, project) pairs joined by [:BELONGS_TO]: no operation creates one
BelongsTo == {}

\* a CONSUMER node's properties (the uuid is the key it is kept under)
Node(generation, created_at, updated_at) ==
    [generation |-> generation, created_at |-> created_at, updated_at |-> updated_at]

\* MATCH (cs:CONSUMER {uuid}) has a row
Exists(cons, uuid) == cons[uuid] # <<>>

\* the generations of the stored CONSUMER nodes with the uuid
StoredGen(cons, uuid) == {cons[uuid][i].generation : i \in DOMAIN cons[uuid]}

\* the CONSUMER nodes matched by {uuid, generation}
NodesWithGen(cons, uuid, generation) ==
    {i \in DOMAIN cons[uuid] : cons[uuid][i].generation = generation}

\* how many [:OWNS] relationships run from src to the node(s) with uuid dst
Rels(o, src, dst) ==
    LET RECURSIVE Sum(_)
        Sum(S) == IF S = {} THEN 0
                  ELSE LET e == CHOOSE x \in S : TRUE IN o[e] + Sum(S \ {e})
    IN  Sum({e \in Edges : e[1] = src /\ e[2] = dst})

OwnersOf(o, dst) == {e[1] : e \in {x \in Edges : x[2] = dst /\ o[x] > 0}}

Perms(S) ==
    {q \in [1..Cardinality(S) -> S] : \A i, j \in 1..Cardinality(S) : q[i] = q[j] => i = j}

\* the rows of the UNION query of relate_project_and_user, in any order the
\* store may return each part: owners of the user, then owners of the consumer
OwnerRows(o, user_uuid, consumer_uuid) ==
    {a \o b : a \in Perms(OwnersOf(o, user_uuid)), b \in Perms(OwnersOf(o, consumer_uuid))}

DeleteOtherProjects_none(o, project_uuid, user_uuid) == o

\* DELETE the [:OWNS] between the user and every PROJECT other than project_uuid
DeleteOtherProjects(o, project_uuid, user_uuid) ==
    [e \in Edges |->
        IF e[2] = user_uuid /\ e[1] \in ProjectUUIDs /\ e[1] # project_uuid
        THEN 0 ELSE o[e]]

DeleteOtherUsers_none(o, user_uuid, consumer_uuid) == o

\* DELETE the [:OWNS] between the consumer and every USER other than user_uuid
DeleteOtherUsers(o, user_uuid, consumer_uuid) ==
    [e \in Edges |->
        IF e[2] = consumer_uuid /\ e[1] \in UserUUIDs /\ e[1] # user_uuid
        THEN 0 ELSE o[e]]

MergeEdge(n) == IF n = 0 THEN 1 ELSE n

CreateEdge(n) == n + 1

MergeOwns_create(o, cons, project_uuid, user_uuid, consumer_uuid) ==
    IF Exists(cons, consumer_uuid)
    THEN [e \in Edges |->
            IF e = <<project_uuid, user_uuid, 0>> THEN CreateEdge(o[e])
            ELSE IF /\ e[1] = user_uuid /\ e[2] = consumer_uuid
                    /\ e[3] \in DOMAIN cons[consumer_uuid] THEN CreateEdge(o[e])
            ELSE o[e]]
    ELSE o

\* MATCH the three nodes, MERGE (pj)-[:OWNS]->(us), MERGE (us)-[:OWNS]->(co),
\* for every CONSUMER node co with the uuid; nothing when there is none
MergeOwns(o, cons, project_uuid, user_uuid, consumer_uuid) ==
    IF Exists(cons, consumer_uuid)
    THEN [e \in Edges |->
            IF e = <<project_uuid, user_uuid, 0>> THEN MergeEdge(o[e])
            ELSE IF /\ e[1] = user_uuid /\ e[2] = consumer_uuid
                    /\ e[3] \in DOMAIN cons[consumer_uuid] THEN MergeEdge(o[e])
            ELSE o[e]]
    ELSE o

gen_or_one(generation) == IF generation = None \/ generation = 0 THEN 1 ELSE generation

\* gen = self.generation or 0
gen_or_zero(generation) == IF generation = None \/ generation = 0 THEN 0 ELSE generation

\* the values timestamp() may give: the millisecond it gave last, or a later one
Timestamps == {t \in {clock, clock + 1} : t <= MaxTime}

\* creat = self.created_at if self.created_at else "timestamp()"
own_or_timestamp(own, timestamp) ==
    IF own = None \/ own = 0 THEN timestamp ELSE own

\* MERGE (cs:CONSUMER {uuid, generation, created_at, updated_at}): a stored
\* node with these four properties matches and nothing is created; otherwise
\* a node is created, also when the uuid is stored already
create_in_db(cons, uuid, gen, creat, updt) ==
    IF \E i \in DOMAIN cons[uuid] : cons[uuid][i] = Node(gen, creat, updt)
    THEN cons
    ELSE [cons EXCEPT ![uuid] = Append(@, Node(gen, creat, updt))]

UserOwnsRows_any_generation(o, cons, uuid, generation) ==
    {e \in Edges : /\ e[2] = uuid /\ e[3] \in DOMAIN cons[uuid]
                   /\ e[1] \in UserUUIDs /\ o[e] > 0}

\* rows of MATCH p=(u:USER)-[:OWNS]-(cs:CONSUMER {uuid, generation})
UserOwnsRows(o, cons, uuid, generation) ==
    {e \in Edges : /\ e[2] = uuid /\ e[3] \in NodesWithGen(cons, uuid, generation)
                   /\ e[1] \in UserUUIDs /\ o[e] > 0}

RowCount(o, rows) ==
    LET RECURSIVE Sum(_)
        Sum(S) == IF S = {} THEN 0
                  ELSE LET e == CHOOSE x \in S : TRUE IN o[e] + Sum(S \ {e})
    IN  Sum(rows)

\* update() with a user: every matched [:OWNS] is deleted, and for every
\* matched row one (u)-[:OWNS]->(cs) is created from the given user to the
\* CONSUMER node of the row
update_in_db(o, cons, uuid, generation, user_uuid) ==
    LET rows == UserOwnsRows(o, cons, uuid, generation)
        kept == [e \in Edges |-> IF e \in rows THEN 0 ELSE o[e]]
    IN  [e \in Edges |->
            IF e[1] = user_uuid /\ e[2] = uuid
            THEN kept[e] + RowCount(o, {r \in rows : r[3] = e[3]})
            ELSE kept[e]]

set_generation_unconditional(cons, uuid, consumer_gen, new_generation) ==
    [cons EXCEPT ![uuid] =
        [i \in DOMAIN @ |-> [@[i] EXCEPT !.generation = new_generation]]]

set_generation_overwrite_stale(cons, uuid, consumer_gen, new_generation) ==
    [cons EXCEPT ![uuid] =
        [i \in DOMAIN @ |->
            [@[i] EXCEPT !.generation = IF @ = consumer_gen
                                        THEN new_generation ELSE consumer_gen]]]

set_generation_twice(cons, uuid, consumer_gen, new_generation) ==
    [cons EXCEPT ![uuid] =
        [i \in DOMAIN @ |->
            IF @[i].generation = consumer_gen
            THEN [@[i] EXCEPT !.generation = new_generation + 1] ELSE @[i]]]

\* MATCH (cs:CONSUMER {uuid, generation: consumer_gen}) SET cs.generation = new
set_generation(cons, uuid, consumer_gen, new_generation) ==
    [cons EXCEPT ![uuid] =
        [i \in DOMAIN @ |->
            IF @[i].generation = consumer_gen
            THEN [@[i] EXCEPT !.generation = new_generation] ELSE @[i]]]

matched_rows_any(cons, uuid, consumer_gen) == Len(cons[uuid])

\* the number of rows that query RETURNs
matched_rows(cons, uuid, consumer_gen) ==
    Cardinality(NodesWithGen(cons, uuid, consumer_gen))

\* rows of OPTIONAL MATCH (pj:PROJECT)-[:OWNS]->(cs), cs the node-th node
ProjectsOwning(o, uuid, node) == {p \in ProjectUUIDs : o[<<p, uuid, node>>] > 0}

\* rows of OPTIONAL MATCH (u:USER)-[:BELONGS_TO]->(pj)
UsersBelongingTo(pj) == {u \in UserUUIDs : <<u, pj>> \in BelongsTo}

OrNull(S) == IF S = {} THEN {NoUuid} ELSE S

\* the dicts _get_consumer_by_uuid may return (the first row of its query, in
\* whatever order the store returns the rows), a CONSUMER node stored
get_consumer_by_uuid(o, cons, uuid) ==
    {[uuid |-> uuid, project_uuid |-> x[2], user_uuid |-> x[3],
      generation |-> cons[uuid][x[1]].generation,
      updated_at |-> cons[uuid][x[1]].updated_at,
      created_at |-> cons[uuid][x[1]].created_at] :
        x \in {y \in (DOMAIN cons[uuid]) \X (ProjectUUIDs \cup {NoUuid})
                        \X (UserUUIDs \cup {NoUuid}) :
                 /\ y[2] \in OrNull(ProjectsOwning(o, uuid, y[1]))
                 /\ y[3] \in OrNull(UsersBelongingTo(y[2]))}}

delete_node_only(o, uuid) == o

\* DETACH DELETE cs: the [:OWNS] relationships of the nodes go with them
detach_owns(o, uuid) ==
    [e \in Edges |-> IF e[1] = uuid \/ e[2] = uuid THEN 0 ELSE o[e]]

\* ... and so do their [:USES] relationships
detach_uses(u, uuid) == [u EXCEPT ![uuid] = 0]

\* MATCH (cs:CONSUMER {uuid}) ... DELETE cs
delete_consumer(cons, uuid) == [cons EXCEPT ![uuid] = <<>>]

delete_supplied(cons, consumer_uuids) ==
    [c \in DOMAIN cons |-> IF c \in consumer_uuids THEN <<>> ELSE cons[c]]

\* delete_consumers_if_no_allocations returns before it runs any query
delete_consumers_if_no_allocations(cons, consumer_uuids) == cons

----------------------------------------------------------------------------
(* The consumer operations.                                                *)

Idle == [at |-> "idle", new_generation |-> 0, rows |-> 0]

NoCall == [op |-> "none", uuid |-> "c1", gen |-> None, stored |-> {},
           outcome |-> "none"]

\* A caller's relate_project_and_user or ensure_consumer call: `at` is the
\* query it runs next ("done" once it has returned), `ensure` tells the two
\* apart, `found` keeps what the owners query found ("chain": the owners asked
\* for, "owners": other owners, "nothing"), `overlaps` whether the call began
\* while another caller was in a call with the same three uuids, `n` is 2
\* when the caller's call before it was the same and no call of another kind
\* ran since, and `nodes` is how many CONSUMER nodes with the uuid were stored
\* when the call began (when the first of the two calls began, for n = 2)
NotRelating == [at |-> "idle", ensure |-> FALSE, found |-> "none", overlaps |-> FALSE,
                n |-> 1, nodes |-> 0,
                project_uuid |-> "pj1", user_uuid |-> "u1", consumer_uuid |-> "c1"]

\* the caller is in no call: it is one thread and runs its calls one by one
Free(k) == frame[k] = Idle /\ rel[k].at \in {"idle", "done"}

\* how many [:OWNS] relationships of o are gone in o2
Removed(o, o2) ==
    LET RECURSIVE Sum(_)
        Sum(S) == IF S = {} THEN 0
                  ELSE LET e == CHOOSE x \in S : TRUE
                       IN  (IF o[e] > o2[e] THEN o[e] - o2[e] ELSE 0) + Sum(S \ {e})
    IN  Sum({e \in Edges : o[e] > o2[e]})

\* the call and what it changed in the store
DbCall(op, by, args, outcome, cons2, owns2) ==
    [op |-> op, by |-> by, args |-> args, outcome |-> outcome,
     changed |-> (cons2 # consumers \/ owns2 # owns),
     removed |-> Removed(owns, owns2)]

\* a query of a relate_project_and_user or ensure_consumer call ran last: the
\* call itself is kept in rel
RelateStep == [op |-> "relate_project_and_user", by |-> "ctx"]

\* Consumer(ctx, uuid=uuid, generation=generation)
NewConsumer(k, uuid, generation) ==
    /\ Free(k)
    /\ objs' = [objs EXCEPT ![k] = [uuid |-> uuid, generation |-> generation,
                                    updated_at |-> None, created_at |-> None]]
    /\ res' = [res EXCEPT ![k] = NoCall]
    /\ db_call' = DbCall("__init__", k, <<uuid, generation>>, "ok", consumers, owns)
    /\ UNCHANGED <<consumers, owns, frame, uses, rel, clock>>

\* Consumer.get_by_uuid(ctx, uuid): ConsumerNotFound when no node has the uuid;
\* the call is recorded with the project and user uuids of the returned object
GetByUuid(k, uuid) ==
    /\ Free(k)
    /\ IF Exists(consumers, uuid)
       THEN \E r \in get_consumer_by_uuid(owns, consumers, uuid) :
            /\ objs' = [objs EXCEPT ![k] =
                           [uuid |-> r.uuid, generation |-> r.generation,
                            updated_at |-> r.updated_at,
                            created_at |-> r.created_at]]
            /\ res' = [res EXCEPT ![k] = NoCall]
            /\ db_call' = DbCall("get_by_uuid", k,
                                 <<uuid, r.project_uuid, r.user_uuid>>, "ok",
                                 consumers, owns)
       ELSE /\ UNCHANGED <<objs, res>>
            /\ db_call' = DbCall("get_by_uuid", k, <<uuid>>, "ConsumerNotFound",
                                 consumers, owns)
    /\ UNCHANGED <<consumers, owns, frame, uses, rel, clock>>

\* consumer.create(): the MERGE names the object's own timestamps when it has
\* them (an object from get_by_uuid) and timestamp() when it has not
Create(k) ==
    LET uuid == objs[k].uuid
        gen == gen_or_zero(objs[k].generation)
    IN  /\ Free(k)
        /\ \E timestamp \in Timestamps :
            LET creat == own_or_timestamp(objs[k].created_at, timestamp)
                updt == own_or_timestamp(objs[k].updated_at, timestamp)
                created == create_in_db(consumers, uuid, gen, creat, updt)
            IN  /\ Len(created[uuid]) <= MaxNodes
                /\ consumers' = created
                /\ clock' = IF objs[k].created_at = None \/ objs[k].updated_at = None
                            THEN timestamp ELSE clock
                /\ db_call' = DbCall("create", k, <<uuid, objs[k].generation>>, "ok",
                                     created, owns)
        /\ objs' = [objs EXCEPT ![k].generation = gen]
        /\ res' = [res EXCEPT ![k] = NoCall]
        /\ UNCHANGED <<owns, frame, uses, rel>>

\* consumer.increment_generation() up to and including its query; the store
\* runs the one MATCH ... SET query as a unit, and other callers may run
\* between the query and the rest of the method
IncrementQuery(k) ==
    LET uuid == objs[k].uuid
        consumer_gen == objs[k].generation
        new_generation == consumer_gen + 1
    IN  /\ Free(k)
        /\ consumer_gen < MaxGen
        /\ IF consumer_gen = None
           THEN \* None + 1 raises TypeError before any query
                /\ res' = [res EXCEPT ![k] =
                              [op |-> "increment_generation", uuid |-> uuid,
                               gen |-> None, stored |-> StoredGen(consumers, uuid),
                               outcome |-> "TypeError"]]
                /\ db_call' = DbCall("increment_generation", k, <<uuid, None>>,
                                     "TypeError", consumers, owns)
                /\ UNCHANGED <<consumers, frame>>
           ELSE /\ consumers' = set_generation(consumers, uuid, consumer_gen,
                                               new_generation)
                /\ frame' = [frame EXCEPT ![k] =
                                [at |-> "query_done",
                                 new_generation |-> new_generation,
                                 rows |-> matched_rows(consumers, uuid, consumer_gen)]]
                /\ res' = [res EXCEPT ![k] =
                              [op |-> "increment_generation", uuid |-> uuid,
                               gen |-> consumer_gen,
                               stored |-> StoredGen(consumers, uuid),
                               outcome |-> "pending"]]
                /\ db_call' = DbCall("increment_generation", k,
                                     <<uuid, consumer_gen>>, "pending",
                                     set_generation(consumers, uuid, consumer_gen,
                                                    new_generation), owns)
        /\ UNCHANGED <<owns, objs, uses, rel, clock>>

\* ... and from `if not result` to its end
IncrementReturn(k) ==
    /\ frame[k].at = "query_done"
    /\ IF frame[k].rows = 0
       THEN /\ res' = [res EXCEPT ![k].outcome = "ConcurrentUpdateDetected"]
            /\ UNCHANGED objs
       ELSE /\ res' = [res EXCEPT ![k].outcome = "ok"]
            /\ objs' = [objs EXCEPT ![k].generation = frame[k].new_generation]
    /\ frame' = [frame EXCEPT ![k] = Idle]
    /\ db_call' = DbCall("increment_generation_return", k, <<objs[k].uuid>>,
                         IF frame[k].rows = 0 THEN "ConcurrentUpdateDetected" ELSE "ok",
                         consumers, owns)
    /\ UNCHANGED <<consumers, owns, uses, rel, clock>>

\* consumer.user = User(uuid=user_uuid), the USER node stored, or
\* consumer.user = None (user_uuid = NoUuid); then consumer.update()
Update(k, user_uuid) ==
    LET uuid == objs[k].uuid
        generation == objs[k].generation
    IN  /\ Free(k)
        /\ IF user_uuid = NoUuid
           THEN \* three values for the two %s of the query text: formatting
                \* raises TypeError and no query runs
                /\ owns' = owns
                /\ db_call' = DbCall("update", k, <<uuid, generation, user_uuid>>,
                                     "TypeError", consumers, owns)
           ELSE IF generation = None
           THEN \* "generation: None" is no Cypher value: the query fails
                /\ owns' = owns
                /\ db_call' = DbCall("update", k, <<uuid, generation, user_uuid>>,
                                     "CypherError", consumers, owns)
           ELSE /\ \A e \in Edges :
                    update_in_db(owns, consumers, uuid, generation, user_uuid)[e]
                        <= MaxRels
                /\ owns' = update_in_db(owns, consumers, uuid, generation, user_uuid)
                /\ db_call' = DbCall("update", k, <<uuid, generation, user_uuid>>,
                                     "ok", consumers,
                                     update_in_db(owns, consumers, uuid, generation,
                                                  user_uuid))
        /\ UNCHANGED <<consumers, objs, frame, res, uses, rel, clock>>

\* consumer.delete(): MATCH (cs:CONSUMER {uuid}) ... DETACH DELETE cs; the
\* call is recorded with the allocations the consumer had
Delete(k) ==
    LET uuid == objs[k].uuid
    IN  /\ Free(k)
        /\ consumers' = delete_consumer(consumers, uuid)
        /\ owns' = detach_owns(owns, uuid)
        /\ uses' = detach_uses(uses, uuid)
        /\ db_call' = DbCall("delete", k, <<uuid, uses[uuid]>>, "ok",
                             delete_consumer(consumers, uuid),
                             detach_owns(owns, uuid))
        /\ UNCHANGED <<objs, frame, res, rel, clock>>

\* delete_consumers_if_no_allocations(ctx, consumer_uuids)
DeleteConsumersIfNoAllocations(consumer_uuids) ==
    /\ consumers' = delete_consumers_if_no_allocations(consumers, consumer_uuids)
    /\ db_call' = DbCall("delete_consumers_if_no_allocations", "ctx",
                         <<consumer_uuids>>, "ok",
                         delete_consumers_if_no_allocations(consumers, consumer_uuids),
                         owns)
    /\ UNCHANGED <<owns, uses, objs, frame, res, rel, clock>>

\* set_allocation(ctx, rp, consumer, ...): replace_all records an allocation
\* of the stored consumer, one more [:USES] relationship
SetAllocation(consumer_uuid) ==
    /\ Exists(consumers, consumer_uuid)
    /\ uses[consumer_uuid] < MaxAllocs
    /\ uses' = [uses EXCEPT ![consumer_uuid] = @ + 1]
    /\ db_call' = DbCall("set_allocation", "ctx", <<consumer_uuid>>, "ok",
                         consumers, owns)
    /\ UNCHANGED <<consumers, owns, objs, frame, res, rel, clock>>

\* relate_project_and_user and ensure_consumer run query by query: the store
\* runs each query as a unit, and another caller's queries may run between
\* two of them.

\* another caller is between the queries of a call with the same arguments
Overlaps(k, project_uuid, user_uuid, consumer_uuid) ==
    \E j \in Callers \ {k} :
        /\ rel[j].at \notin {"idle", "done"}
        /\ rel[j].project_uuid = project_uuid
        /\ rel[j].user_uuid = user_uuid
        /\ rel[j].consumer_uuid = consumer_uuid

\* the caller's last call was this one, and has returned
Repeats(k, ensure, project_uuid, user_uuid, consumer_uuid) ==
    /\ db_call = RelateStep
    /\ rel[k].at = "done"
    /\ rel[k].ensure = ensure
    /\ rel[k].project_uuid = project_uuid
    /\ rel[k].user_uuid = user_uuid
    /\ rel[k].consumer_uuid = consumer_uuid

\* the call of caller k that begins
Begin(k, ensure, project_uuid, user_uuid, consumer_uuid) ==
    [at |-> "owners", ensure |-> ensure, found |-> "none",
     overlaps |-> Overlaps(k, project_uuid, user_uuid, consumer_uuid),
     n |-> IF Repeats(k, ensure, project_uuid, user_uuid, consumer_uuid)
           THEN 2 ELSE 1,
     nodes |-> IF Repeats(k, ensure, project_uuid, user_uuid, consumer_uuid)
               THEN rel[k].nodes ELSE Len(consumers[consumer_uuid]),
     project_uuid |-> project_uuid, user_uuid |-> user_uuid,
     consumer_uuid |-> consumer_uuid]

\* The call after the UNION query and the tests on its rows: it has returned
\* (line 134), goes on with the deletes, or goes on with the MERGE query
AfterOwnersQuery(call, owners) ==
    [call EXCEPT
        !.at = IF owners = <<call.project_uuid, call.user_uuid>> THEN "done"
               ELSE IF owners # <<>> THEN "delete_projects"
               ELSE "merge",
        !.found = IF owners = <<call.project_uuid, call.user_uuid>> THEN "chain"
                  ELSE IF owners # <<>> THEN "owners"
                  ELSE "nothing"]

\* a call of relate_project_and_user begins: its owners query
RelateQueryOwners(k, project_uuid, user_uuid, consumer_uuid) ==
    /\ Free(k)
    /\ \E owners \in OwnerRows(owns, user_uuid, consumer_uuid) :
           rel' = [rel EXCEPT ![k] =
                      AfterOwnersQuery(Begin(k, FALSE, project_uuid, user_uuid,
                                             consumer_uuid), owners)]
    /\ db_call' = RelateStep
    /\ UNCHANGED <<consumers, owns, uses, objs, frame, res, clock>>

\* if owners: the query that deletes the user's other projects
RelateDeleteProjects(k) ==
    /\ rel[k].at = "delete_projects"
    /\ owns' = DeleteOtherProjects(owns, rel[k].project_uuid, rel[k].user_uuid)
    /\ rel' = [rel EXCEPT ![k].at = "delete_users"]
    /\ db_call' = RelateStep
    /\ UNCHANGED <<consumers, uses, objs, frame, res, clock>>

\* ... and the query that deletes the consumer's other users
RelateDeleteUsers(k) ==
    /\ rel[k].at = "delete_users"
    /\ owns' = DeleteOtherUsers(owns, rel[k].user_uuid, rel[k].consumer_uuid)
    /\ rel' = [rel EXCEPT ![k].at = "merge"]
    /\ db_call' = RelateStep
    /\ UNCHANGED <<consumers, uses, objs, frame, res, clock>>

\* the MATCH ... MERGE ... MERGE query, after which the call returns
RelateMerge(k) ==
    /\ rel[k].at = "merge"
    /\ owns' = MergeOwns(owns, consumers, rel[k].project_uuid, rel[k].user_uuid,
                         rel[k].consumer_uuid)
    /\ rel' = [rel EXCEPT ![k].at = "done"]
    /\ db_call' = RelateStep
    /\ UNCHANGED <<consumers, uses, objs, frame, res, clock>>

after_get_by_uuid_not_found(cons, consumer_uuid) == "create"

\* try: Consumer.get_by_uuid ... except NotFound: where ensure_consumer goes on
after_get_by_uuid(cons, consumer_uuid) ==
    IF Exists(cons, consumer_uuid) THEN "owners" ELSE "create"

\* ensure_consumer begins: Consumer.get_by_uuid, and on NotFound the
\* construction of a Consumer with no generation and no timestamps
EnsureGet(k, project_uuid, user_uuid, consumer_uuid) ==
    /\ Free(k)
    /\ rel' = [rel EXCEPT ![k] =
                  [Begin(k, TRUE, project_uuid, user_uuid, consumer_uuid) EXCEPT
                      !.at = after_get_by_uuid(consumers, consumer_uuid)]]
    /\ db_call' = RelateStep
    /\ UNCHANGED <<consumers, owns, uses, objs, frame, res, clock>>

\* consumer.create() of that object
EnsureCreate(k) ==
    /\ rel[k].at = "create"
    /\ \E timestamp \in Timestamps :
        LET created == create_in_db(consumers, rel[k].consumer_uuid,
                                    gen_or_zero(None),
                                    own_or_timestamp(None, timestamp),
                                    own_or_timestamp(None, timestamp))
        IN  /\ Len(created[rel[k].consumer_uuid]) <= MaxNodes
            /\ consumers' = created
            /\ clock' = timestamp
    /\ rel' = [rel EXCEPT ![k].at = "owners"]
    /\ db_call' = RelateStep
    /\ UNCHANGED <<owns, uses, objs, frame, res>>

\* the owners query of its relate_project_and_user, which goes on as above
EnsureRelate(k) ==
    /\ rel[k].at = "owners"
    /\ \E owners \in OwnerRows(owns, rel[k].user_uuid, rel[k].consumer_uuid) :
           rel' = [rel EXCEPT ![k] = AfterOwnersQuery(rel[k], owners)]
    /\ db_call' = RelateStep
    /\ UNCHANGED <<consumers, owns, uses, objs, frame, res, clock>>

InitDB ==
    /\ consumers = [c \in ConsumerUUIDs |-> <<>>]
    /\ owns = [e \in Edges |-> 0]
    /\ objs = [k \in Callers |-> [uuid |-> "c1", generation |-> None,
                                  updated_at |-> None, created_at |-> None]]
    /\ frame = [k \in Callers |-> Idle]
    /\ res = [k \in Callers |-> NoCall]
    /\ db_call = [op |-> "none", by |-> "ctx"]
    /\ uses = [c \in ConsumerUUIDs |-> 0]
    /\ rel = [k \in Callers |-> NotRelating]
    /\ clock = 1

Init == InitRP /\ InitDB

Next ==
    \/ \E l \in Lists : Construct(l)
    \/ \E l \in Lists, t \in SUBSET RPTuples, rc \in RCNames : AddRps(l, t, rc)
    \/ \E ids \in SUBSET UUIDs : FilterByTree("self", ids)
    \/ \E t \in SUBSET RPTuples : FilterByRp("self", t)
    \/ \E ids \in SUBSET UUIDs : FilterByRpOrTree("self", ids)
    \/ \E ids \in SUBSET UUIDs : FilterByRpNorTree("self", ids)
    \/ MergeCommonTrees("self")

Spec == Init /\ [][Next]_vars

----------------------------------------------------------------------------
(* The orchestrator's use: one list per requested resource class, built    *)
(* with add_rps and merged into the accumulator "self", one after another. *)

\* a new list for the next resource class
NextClassList == Construct("other")

\* providers found for that class are added to the new list
FillClassList(rptuples, rc_name) ==
    /\ ~aliased
    /\ AddRps("other", rptuples, rc_name)

\* the non-empty list is merged into the accumulator
MergeClassList ==
    /\ rp_candidates["other"] # {}
    /\ Len(merged) < MaxMerges
    /\ MergeCall("self")
    /\ merged' = Append(merged, trees(rp_candidates["other"]))

NextMerge ==
    \/ NextClassList
    \/ \E t \in SUBSET RPTuples, rc \in RCNames : FillClassList(t, rc)
    \/ MergeClassList

SpecMerge == Init /\ [][NextMerge]_vars

----------------------------------------------------------------------------
(* Callers working on the generation of consumer c1.                       *)

NextGen ==
    \/ \E k \in Callers, g \in {None} \cup (0..MaxGen) :
            NewConsumer(k, "c1", g) /\ UNCHANGED rpVars
    \/ \E k \in Callers : GetByUuid(k, "c1") /\ UNCHANGED rpVars
    \/ \E k \in Callers : Create(k) /\ UNCHANGED rpVars
    \/ \E k \in Callers : IncrementQuery(k) /\ UNCHANGED rpVars
    \/ \E k \in Callers : IncrementReturn(k) /\ UNCHANGED rpVars

SpecGen == Init /\ [][NextGen]_vars

(* One caller working on the ownership of consumer c1, call after call.    *)

NextOwn ==
    \/ NewConsumer("a", "c1", None) /\ UNCHANGED rpVars
    \/ GetByUuid("a", "c1") /\ UNCHANGED rpVars
    \/ Create("a") /\ UNCHANGED rpVars
    \/ \E u \in UserUUIDs : Update("a", u) /\ UNCHANGED rpVars
    \/ \E p \in ProjectUUIDs, u \in UserUUIDs :
            RelateQueryOwners("a", p, u, "c1") /\ UNCHANGED rpVars
    \/ RelateDeleteProjects("a") /\ UNCHANGED rpVars
    \/ RelateDeleteUsers("a") /\ UNCHANGED rpVars
    \/ RelateMerge("a") /\ UNCHANGED rpVars
    \/ \E p \in ProjectUUIDs, u \in UserUUIDs :
            EnsureGet("a", p, u, "c1") /\ UNCHANGED rpVars
    \/ EnsureCreate("a") /\ UNCHANGED rpVars
    \/ EnsureRelate("a") /\ UNCHANGED rpVars

SpecOwn == Init /\ [][NextOwn]_vars

(* Caller a updating the owner of consumer c1, whose generation it may     *)
(* hold, have missed or not know, while caller b relates the users of      *)
(* project pj1 to the consumer query by query.                             *)

NextUpd ==
    \/ \E g \in {None} \cup (0..MaxGen - 1) :
            NewConsumer("a", "c1", g) /\ UNCHANGED rpVars
    \/ Create("a") /\ UNCHANGED rpVars
    \/ \E u \in UserUUIDs \cup {NoUuid} : Update("a", u) /\ UNCHANGED rpVars
    \/ \E u \in UserUUIDs :
            RelateQueryOwners("b", "pj1", u, "c1") /\ UNCHANGED rpVars
    \/ RelateDeleteProjects("b") /\ UNCHANGED rpVars
    \/ RelateDeleteUsers("b") /\ UNCHANGED rpVars
    \/ RelateMerge("b") /\ UNCHANGED rpVars

SpecUpd == Init /\ [][NextUpd]_vars

(* Caller a creating, incrementing and updating consumer c1 for user u1    *)
(* while caller b relates the users of project pj1 to it: any query of the *)
(* other caller may run between the query of an increment_generation and   *)
(* its return, and between the queries of a relate_project_and_user.       *)

NextMono ==
    \/ \E g \in 0..MaxGen : NewConsumer("a", "c1", g) /\ UNCHANGED rpVars
    \/ Create("a") /\ UNCHANGED rpVars
    \/ IncrementQuery("a") /\ UNCHANGED rpVars
    \/ IncrementReturn("a") /\ UNCHANGED rpVars
    \/ Update("a", "u1") /\ UNCHANGED rpVars
    \/ \E u \in UserUUIDs :
            RelateQueryOwners("b", "pj1", u, "c1") /\ UNCHANGED rpVars
    \/ RelateDeleteProjects("b") /\ UNCHANGED rpVars
    \/ RelateDeleteUsers("b") /\ UNCHANGED rpVars
    \/ RelateMerge("b") /\ UNCHANGED rpVars

SpecMono == Init /\ [][NextMono]_vars

(* Two callers that ensure consumer c1 for user u1 of project pj1 and      *)
(* relate projects and users to it at the same time, call after call.      *)

NextConc ==
    \/ \E k \in Callers : EnsureGet(k, "pj1", "u1", "c1") /\ UNCHANGED rpVars
    \/ \E k \in Callers : EnsureCreate(k) /\ UNCHANGED rpVars
    \/ \E k \in Callers : EnsureRelate(k) /\ UNCHANGED rpVars
    \/ \E k \in Callers, p \in ProjectUUIDs, u \in UserUUIDs :
            RelateQueryOwners(k, p, u, "c1") /\ UNCHANGED rpVars
    \/ \E k \in Callers : RelateDeleteProjects(k) /\ UNCHANGED rpVars
    \/ \E k \in Callers : RelateDeleteUsers(k) /\ UNCHANGED rpVars
    \/ \E k \in Callers : RelateMerge(k) /\ UNCHANGED rpVars

SpecConc == Init /\ [][NextConc]_vars

(* Caller a looking up, allocating for and deleting consumers while caller *)
(* b ensures them for user u1 of project pj1, query by query.              *)

NextDel ==
    \/ \E c \in ConsumerUUIDs : NewConsumer("a", c, None) /\ UNCHANGED rpVars
    \/ \E c \in ConsumerUUIDs : GetByUuid("a", c) /\ UNCHANGED rpVars
    \/ Delete("a") /\ UNCHANGED rpVars
    \/ \E c \in ConsumerUUIDs : SetAllocation(c) /\ UNCHANGED rpVars
    \/ \E ids \in SUBSET ConsumerUUIDs :
            DeleteConsumersIfNoAllocations(ids) /\ UNCHANGED rpVars
    \/ \E c \in ConsumerUUIDs : EnsureGet("b", "pj1", "u1", c) /\ UNCHANGED rpVars
    \/ EnsureCreate("b") /\ UNCHANGED rpVars
    \/ EnsureRelate("b") /\ UNCHANGED rpVars
    \/ RelateDeleteProjects("b") /\ UNCHANGED rpVars
    \/ RelateDeleteUsers("b") /\ UNCHANGED rpVars
    \/ RelateMerge("b") /\ UNCHANGED rpVars

SpecDel == Init /\ [][NextDel]_vars

----------------------------------------------------------------------------
(* Claims about the candidate-set algebra.                                 *)

ScenarioA ==
    {RPCandidate("p1", "p1", "DISK_GB"), RPCandidate("p2", "p1", "VCPU"),
     RPCandidate("p3", "p3", "DISK_GB")}

ScenarioB ==
    {RPCandidate("p1", "p1", "DISK_GB"), RPCandidate("p3", "p3", "VCPU")}

\* C1: when self and other are both non-empty, self.merge_common_trees(other)
\* leaves in self exactly the candidates of either list whose root is the root
\* of some candidate of self and of some candidate of other (so none when the
\* lists share no tree).
C1_MergeKeepsCommonTrees ==
    [][(/\ last_call'.op = "merge_common_trees"
        /\ rp_candidates["self"] # {}
        /\ rp_candidates["other"] # {})
       => rp_candidates'["self"] =
            {c \in rp_candidates["self"] \cup rp_candidates["other"] :
                /\ \E a \in rp_candidates["self"] : a.root_uuid = c.root_uuid
                /\ \E b \in rp_candidates["other"] : b.root_uuid = c.root_uuid}]_vars

\* The scenario of the specification: A merged with B keeps all four triples.
C1_Witness ==
    /\ last_call = Called("merge_common_trees", "self")
    /\ rp_candidates["other"] = ScenarioB
    /\ rp_candidates["self"] = ScenarioA \cup ScenarioB
    /\ ~aliased

\* C2: merging an empty other leaves self's candidates unchanged; merging into
\* an empty self makes self's candidates equal to other's.
C2_MergeEmptyCases ==
    [][last_call'.op = "merge_common_trees"
       => /\ (rp_candidates["other"] = {}
                => rp_candidates'["self"] = rp_candidates["self"])
          /\ (rp_candidates["self"] = {}
                => rp_candidates'["self"] = rp_candidates["other"])]_vars

\* An empty self has taken over a two-candidate other.
C2_Witness ==
    /\ last_call = Called("merge_common_trees", "self")
    /\ aliased
    /\ rp_candidates["self"] = ScenarioB
    /\ rp_candidates["other"] = ScenarioB

\* C3: after one or more non-empty lists were merged, one after another, into
\* an accumulator that started empty, every tree of the accumulator is a tree
\* of every one of the merged lists.
C3_TreesInEveryMergedList ==
    Len(merged) >= 1 =>
        \A t \in trees(rp_candidates["self"]) :
            \A i \in 1..Len(merged) : t \in merged[i]

\* C4: for every set S of uuids, filter_by_rp_or_tree(S) and
\* filter_by_rp_nor_tree(S) split the candidates of a list into two disjoint
\* parts whose union is the whole list.
C4_OrNorPartition ==
    \A l \in Lists : \A S \in SUBSET UUIDs :
        LET X == rp_candidates[l]
            kept == filter_by_rp_or_tree(X, S)
            dropped == filter_by_rp_nor_tree(X, S)
        IN  /\ kept \cap dropped = {}
            /\ kept \cup dropped = X

\* A filter_by_rp_nor_tree call left a list that {p3} splits into two non-empty
\* parts, one of them kept for its root only.
C4_Witness ==
    /\ last_call = Called("filter_by_rp_nor_tree", "self")
    /\ filter_by_rp_or_tree(rp_candidates["self"], {"p1"}) =
            {RPCandidate("p1", "p1", "VCPU"), RPCandidate("p2", "p1", "VCPU")}
    /\ filter_by_rp_nor_tree(rp_candidates["self"], {"p1"}) # {}

\* C5: in every reachable state rps and trees are subsets of all_rps.
C5_RpsAndTreesInAllRps ==
    \A l \in Lists :
        /\ rps(rp_candidates[l]) \subseteq all_rps(rp_candidates[l])
        /\ trees(rp_candidates[l]) \subseteq all_rps(rp_candidates[l])

\* After a filter only the child p2 is left: rps = {p2}, trees = {p1}.
C5_Witness ==
    /\ last_call = Called("filter_by_rp", "self")
    /\ rps(rp_candidates["self"]) = {"p2"}
    /\ trees(rp_candidates["self"]) = {"p1"}

----------------------------------------------------------------------------
(* Claims about the consumer generation.                                   *)

\* C6: the query of an increment_generation call by a caller holding
\* generation G sets to G + 1 the generation of every stored node of the
\* consumer that has generation G and changes nothing else in the store; the
\* call returns with the caller's generation at G + 1 and no error when G was
\* a stored generation of the consumer, and raises ConcurrentUpdateDetected,
\* the caller's object unchanged, when it was not.
C6_IncrementGeneration ==
    [][\A k \in Callers :
        LET c == objs[k].uuid
            G == objs[k].generation
        IN  /\ (frame[k].at = "idle" /\ frame'[k].at = "query_done")
                => \A d \in ConsumerUUIDs :
                    /\ Len(consumers'[d]) = Len(consumers[d])
                    /\ \A i \in DOMAIN consumers[d] :
                        consumers'[d][i] =
                            IF d = c /\ consumers[d][i].generation = G
                            THEN [consumers[d][i] EXCEPT !.generation = G + 1]
                            ELSE consumers[d][i]
            /\ (frame[k].at = "query_done" /\ frame'[k].at = "idle")
                => IF res[k].gen \in res[k].stored
                   THEN /\ res'[k].outcome = "ok"
                        /\ objs'[k].generation = res[k].gen + 1
                   ELSE /\ res'[k].outcome = "ConcurrentUpdateDetected"
                        /\ objs'[k] = objs[k]]_vars

\* Caller a incremented from 0 to 1; caller b, still holding 0, then failed.
C6_Witness ==
    /\ res["a"] = [op |-> "increment_generation", uuid |-> "c1", gen |-> 0,
                   stored |-> {0}, outcome |-> "ok"]
    /\ res["b"] = [op |-> "increment_generation", uuid |-> "c1", gen |-> 0,
                   stored |-> {1}, outcome |-> "ConcurrentUpdateDetected"]
    /\ objs["a"].generation = 1
    /\ objs["b"].generation = 0
    /\ Len(consumers["c1"]) = 1
    /\ StoredGen(consumers, "c1") = {1}

\* C7: when two callers called increment_generation for the same consumer
\* with the same generation G, G being the stored generation when the first
\* query ran and nothing but that query having changed it before the second
\* query ran, then whatever the order of their queries and returns exactly
\* one of the calls succeeded, the other raised ConcurrentUpdateDetected, and
\* the stored generation is G + 1.
C7_OneOfTwoWins ==
    \A k1, k2 \in Callers :
        (/\ k1 # k2
         /\ frame[k1].at = "idle" /\ frame[k2].at = "idle"
         /\ res[k1].op = "increment_generation"
         /\ res[k2].op = "increment_generation"
         /\ res[k1].uuid = res[k2].uuid
         /\ res[k1].gen = res[k2].gen
         /\ res[k1].gen # None
         /\ res[k1].stored = {res[k1].gen}
         /\ res[k2].stored = {res[k1].gen + 1})
        => /\ res[k1].outcome = "ok"
           /\ res[k2].outcome = "ConcurrentUpdateDetected"
           /\ StoredGen(consumers, res[k1].uuid) = {res[k1].gen + 1}

\* Both held 0; a's query ran first, b's query and return came in between,
\* and a has just returned.
C7_Witness ==
    /\ db_call.op = "increment_generation_return" /\ db_call.by = "a"
    /\ frame["a"].at = "idle" /\ frame["b"].at = "idle"
    /\ res["a"].gen = 0 /\ res["a"].stored = {0} /\ res["a"].outcome = "ok"
    /\ res["b"].op = "increment_generation"
    /\ res["b"].gen = 0 /\ res["b"].stored = {1}
    /\ res["b"].outcome = "ConcurrentUpdateDetected"
    /\ StoredGen(consumers, "c1") = {1}

\* C8: right after create() on a Consumer object with no generation given a
\* node of the consumer with generation 0 is stored and the object has
\* generation 0; with generation g > 0 given, a node with generation g is
\* stored and the object has g.
C8_CreateGeneration ==
    db_call.op = "create" =>
        LET uuid == db_call.args[1]
            given == db_call.args[2]
            expected == IF given = None THEN 0 ELSE given
        IN  /\ expected \in StoredGen(consumers, uuid)
            /\ objs[db_call.by].generation = expected

\* create() just ran on a new object whose generation was unspecified and
\* stored the only node of c1.
C8_Witness ==
    /\ db_call.op = "create"
    /\ db_call.args = <<"c1", None>>
    /\ db_call.changed
    /\ Len(consumers["c1"]) = 1
    /\ consumers["c1"][1].generation = 0
    /\ objs[db_call.by].generation = 0
    /\ objs[db_call.by].created_at = None

----------------------------------------------------------------------------
(* Claims about the ownership chain.                                       *)

\* src owns dst, and nothing else does
OnlyOwner(src, dst) ==
    /\ Rels(owns, src, dst) >= 1
    /\ OwnersOf(owns, dst) = {src}

\* no stored node of the consumer has two relationships from the user
OnePerNode(user_uuid, consumer_uuid) ==
    \A i \in 1..MaxNodes : owns[<<user_uuid, consumer_uuid, i>>] <= 1

\* C9: right after a relate_project_and_user(P, U, C) call has returned, C
\* being a stored consumer, P owns U, U owns C, no other project owns U and no
\* other user owns C.
C9_RelateEstablishesChain ==
    \A k \in Callers :
        (/\ db_call = RelateStep
         /\ rel[k].at = "done"
         /\ Exists(consumers, rel[k].consumer_uuid))
        => /\ OnlyOwner(rel[k].project_uuid, rel[k].user_uuid)
           /\ OnlyOwner(rel[k].user_uuid, rel[k].consumer_uuid)

\* relate(pj2, u2, c1) found other owners, took u2 away from pj1 and c1 away
\* from u1, and has returned.
C9_Witness ==
    /\ db_call = RelateStep
    /\ rel["a"].at = "done" /\ ~rel["a"].ensure
    /\ rel["a"].found = "owners"
    /\ rel["a"].project_uuid = "pj2" /\ rel["a"].user_uuid = "u2"
    /\ Exists(consumers, "c1")
    /\ Rels(owns, "pj2", "u2") = 1 /\ Rels(owns, "u2", "c1") = 1
    /\ Rels(owns, "pj1", "u2") = 0 /\ Rels(owns, "u1", "c1") = 0
    /\ Rels(owns, "pj1", "u1") = 1

\* C10: right after the second of two relate_project_and_user(P, U, C) calls
\* in a row, C being a stored consumer, there is exactly one P->U
\* relationship, U owns C with no more than one relationship to a stored node
\* of it (so exactly one U->C relationship when C is stored once), the second
\* call returned at its test of the owners, before any query that writes, and
\* as many nodes of C are stored as before the calls; right after the second
\* of two ensure_consumer calls in a row with the same arguments the same
\* holds, U and C have no other owner, and the consumer is stored exactly
\* once when it was not stored before the two calls and as often as before
\* them otherwise, so the second call added no node.
C10_RelateTwice ==
    \A k \in Callers :
        LET P == rel[k].project_uuid
            U == rel[k].user_uuid
            C == rel[k].consumer_uuid
        IN  (/\ db_call = RelateStep
             /\ rel[k].at = "done"
             /\ rel[k].n = 2)
            => /\ rel[k].ensure => Exists(consumers, C)
               /\ Len(consumers[C]) =
                    IF rel[k].ensure /\ rel[k].nodes = 0 THEN 1 ELSE rel[k].nodes
               /\ Exists(consumers, C)
                    => /\ Rels(owns, P, U) = 1
                       /\ Rels(owns, U, C) >= 1 /\ OnePerNode(U, C)
                       /\ Len(consumers[C]) = 1 => Rels(owns, U, C) = 1
                       /\ rel[k].found = "chain"
               /\ rel[k].ensure => OnlyOwner(P, U) /\ OnlyOwner(U, C)

\* The second ensure_consumer(pj1, u1, c1) in a row has returned, c1 not
\* being stored before the two calls: the first call created and related it,
\* and the second found it and called relate_project_and_user(pj1, u1, c1),
\* the second such call in a row, which returned at its test of the owners.
C10_Witness ==
    /\ db_call = RelateStep
    /\ rel["a"].at = "done" /\ rel["a"].ensure
    /\ rel["a"].n = 2 /\ rel["a"].nodes = 0
    /\ rel["a"].found = "chain"
    /\ rel["a"].project_uuid = "pj1" /\ rel["a"].user_uuid = "u1"
    /\ Len(consumers["c1"]) = 1
    /\ Rels(owns, "pj1", "u1") = 1 /\ Rels(owns, "u1", "c1") = 1
    /\ OwnersOf(owns, "u1") = {"pj1"} /\ OwnersOf(owns, "c1") = {"u1"}

----------------------------------------------------------------------------
(* Claims about callers that relate at the same time.                      *)

\* C11: when two callers have run relate_project_and_user(P, U, C) with the
\* same P, U and stored consumer C, their queries interleaved in any order,
\* then once both calls have returned there is exactly one P->U relationship,
\* U owns C with no more than one relationship to a stored node of it (so
\* exactly one U->C relationship when C is stored once), no other project
\* owns U and no other user owns C.
C11_ConcurrentSameTriple ==
    LET P == rel["a"].project_uuid
        U == rel["a"].user_uuid
        C == rel["a"].consumer_uuid
    IN  (/\ rel["a"].at = "done" /\ rel["b"].at = "done"
         /\ rel["b"].project_uuid = P
         /\ rel["b"].user_uuid = U
         /\ rel["b"].consumer_uuid = C
         /\ Exists(consumers, C))
        => /\ Rels(owns, P, U) = 1 /\ OnlyOwner(P, U)
           /\ OnlyOwner(U, C) /\ OnePerNode(U, C)
           /\ Len(consumers[C]) = 1 => Rels(owns, U, C) = 1

\* Both calls of relate(pj2, u2, c1) have returned; b's began while a's was
\* between its queries, and the first query of each found other owners.
C11_Witness ==
    /\ rel["a"] = [NotRelating EXCEPT !.at = "done", !.found = "owners",
                                      !.nodes = 1,
                                      !.project_uuid = "pj2", !.user_uuid = "u2"]
    /\ rel["b"] = [rel["a"] EXCEPT !.overlaps = TRUE]
    /\ Len(consumers["c1"]) = 1
    /\ Rels(owns, "pj2", "u2") = 1 /\ Rels(owns, "u2", "c1") = 1

\* C12: in every state each consumer has at most one owning user and each
\* user has at most one owning project.
C12_AtMostOneOwner ==
    /\ \A c \in ConsumerUUIDs :
            Cardinality({u \in UserUUIDs : Rels(owns, u, c) > 0}) <= 1
    /\ \A u \in UserUUIDs :
            Cardinality({p \in ProjectUUIDs : Rels(owns, p, u) > 0}) <= 1

----------------------------------------------------------------------------
(* Claims about update().                                                  *)

\* C13: right after update() with a user V on a consumer whose stored
\* generation is the caller's generation, V owns the consumer, no other user
\* does, and the call raised nothing.
C13_UpdateSetsUser ==
    LET C == db_call.args[1]
        G == db_call.args[2]
        V == db_call.args[3]
    IN  (/\ db_call.op = "update"
         /\ V # NoUuid
         /\ StoredGen(consumers, C) = {G})
        => /\ OnlyOwner(V, C)
           /\ db_call.outcome = "ok"

\* C14: an update() by a caller whose generation is not a stored generation
\* of the consumer changes no ownership relationship and no stored consumer.
C14_StaleUpdateChangesNothing ==
    (/\ db_call.op = "update"
     /\ db_call.args[2] \notin StoredGen(consumers, db_call.args[1]))
    => /\ ~db_call.changed
       /\ db_call.removed = 0

\* The caller held generation 0 of c1, stored with generation 1 and owned by
\* u1, and updated it with user u2.
C14_Witness ==
    /\ db_call.op = "update"
    /\ db_call.args = <<"c1", 0, "u2">>
    /\ db_call.outcome = "ok"
    /\ StoredGen(consumers, "c1") = {1}
    /\ Rels(owns, "u1", "c1") = 1

\* C15: an update() with no user set ends without an error and, when the
\* caller's generation is the stored generation, leaves the consumer without
\* an owning user.
C15_UpdateWithoutUser ==
    LET C == db_call.args[1]
        G == db_call.args[2]
    IN  (db_call.op = "update" /\ db_call.args[3] = NoUuid)
        => /\ db_call.outcome = "ok"
           /\ StoredGen(consumers, C) = {G} => OwnersOf(owns, C) = {}

----------------------------------------------------------------------------
(* Claims about deleting consumers.                                        *)

\* C16: right after delete_consumers_if_no_allocations(uuids) none of the
\* supplied consumers is stored without a [:USES] relationship.
C16_UnusedConsumersDeleted ==
    db_call.op = "delete_consumers_if_no_allocations"
    => \A c \in db_call.args[1] : ~(Exists(consumers, c) /\ uses[c] = 0)

\* C17: a delete_consumers_if_no_allocations call, whatever allocations were
\* recorded before it, never removes a consumer that has one or more [:USES]
\* relationships.
C17_UsedConsumersKept ==
    [][db_call'.op = "delete_consumers_if_no_allocations"
       => \A c \in ConsumerUUIDs :
            (Exists(consumers, c) /\ uses[c] >= 1) => consumers'[c] = consumers[c]]_vars

\* delete_consumers_if_no_allocations({c1, c2}) just ran, c1 having an
\* allocation and c2 none.
C17_Witness ==
    /\ db_call.op = "delete_consumers_if_no_allocations"
    /\ db_call.args = <<{"c1", "c2"}>>
    /\ Exists(consumers, "c1") /\ uses["c1"] = 1
    /\ Exists(consumers, "c2") /\ uses["c2"] = 0

\* C18: right after delete() the consumer is not stored, no [:OWNS] and no
\* [:USES] relationship touches it, whether it had allocations or not; and
\* get_by_uuid of a uuid that is not stored raises ConsumerNotFound.
C18_DeleteDetaches ==
    /\ db_call.op = "delete"
        => LET C == db_call.args[1]
           IN  /\ ~Exists(consumers, C)
               /\ \A e \in Edges : (e[1] = C \/ e[2] = C) => owns[e] = 0
               /\ uses[C] = 0
    /\ (db_call.op = "get_by_uuid" /\ ~Exists(consumers, db_call.args[1]))
        => db_call.outcome = "ConsumerNotFound"

\* delete() just removed c1, which had two allocations and an owning user.
C18_Witness ==
    /\ db_call.op = "delete"
    /\ db_call.args = <<"c1", 2>>
    /\ db_call.removed = 1
    /\ db_call.changed
    /\ ~Exists(consumers, "c1")

----------------------------------------------------------------------------
(* Claims about what the operations hand back and leave alone.             *)

\* C19: right after get_by_uuid(C) of a stored consumer C that P -> U -> C
\* own, P and U being the only owners of U and of C, the returned consumer
\* has project P and user U.
C19_GetByUuidReturnsOwners ==
    (db_call.op = "get_by_uuid" /\ db_call.outcome = "ok")
    => \A P \in ProjectUUIDs, U \in UserUUIDs :
          (OnlyOwner(P, U) /\ OnlyOwner(U, db_call.args[1]))
          => /\ db_call.args[2] = P
             /\ db_call.args[3] = U

\* C20: no call on the list "self" (merge_common_trees(other), add_rps, a
\* filter), before or after a merge, changes the candidates of "other".
C20_OtherLeftAlone ==
    [][last_call'.on = "self"
       => rp_candidates'["other"] = rp_candidates["other"]]_vars

----------------------------------------------------------------------------
(* Claims about the stored generation while callers interleave.            *)

\* C21: in every step of callers that increment, update and relate, each
\* stored node of a consumer stays stored and its generation either stays as
\* it is or goes up by exactly 1; it goes up only in the query of an
\* increment_generation call that then returns without error, and the query
\* of every such call raises by exactly 1 the generation the caller holds.
C21_GenerationMonotonic ==
    [][\A c \in ConsumerUUIDs : \A i \in DOMAIN consumers[c] :
        LET old == consumers[c][i].generation
            Succeeds(k) == /\ frame[k].at = "idle"
                           /\ frame'[k].at = "query_done"
                           /\ frame'[k].rows >= 1
                           /\ objs[k].uuid = c
        IN  /\ i \in DOMAIN consumers'[c]
            /\ consumers'[c][i].generation >= old
            /\ consumers'[c][i].generation # old
                => /\ consumers'[c][i].generation = old + 1
                   /\ \E k \in Callers : Succeeds(k) /\ objs[k].generation = old
            /\ \A k \in Callers :
                    (Succeeds(k) /\ objs[k].generation = old)
                        => consumers'[c][i].generation = old + 1]_vars

\* Caller a is between the query of its second increment of c1, stored once
\* with generation 2 now, and its return, while caller b, whose owners query
\* found u1 owning c1, is between the queries of its relate.
C21_Witness ==
    /\ frame["a"] = [at |-> "query_done", new_generation |-> 2, rows |-> 1]
    /\ Len(consumers["c1"]) = 1
    /\ StoredGen(consumers, "c1") = {2}
    /\ rel["b"].at = "delete_users" /\ rel["b"].found = "owners"
    /\ Rels(owns, "u1", "c1") = 1

\* C22: an increment_generation call that raises ConcurrentUpdateDetected
\* changes nothing: neither its query (which matched no row) nor its return
\* changes a stored consumer, an [:OWNS] relationship or the generation of
\* the caller's object.
C22_FailedIncrementChangesNothing ==
    [][\A k \in Callers :
        LET Unchanged == /\ consumers' = consumers
                         /\ owns' = owns
                         /\ objs'[k] = objs[k]
        IN  /\ (/\ frame[k].at = "idle"
                /\ frame'[k].at = "query_done"
                /\ frame'[k].rows = 0) => Unchanged
            /\ (/\ frame[k].at = "query_done"
                /\ frame'[k].at = "idle"
                /\ res'[k].outcome = "ConcurrentUpdateDetected") => Unchanged]_vars

\* Caller a, holding generation 0 of c1 that is stored with generation 1 and
\* owned by u1 since an update(), has just got ConcurrentUpdateDetected while
\* caller b is before the MERGE query of its relate_project_and_user(pj1, u1,
\* c1).
C22_Witness ==
    /\ db_call.op = "increment_generation_return" /\ db_call.by = "a"
    /\ db_call.outcome = "ConcurrentUpdateDetected"
    /\ res["a"].gen = 0 /\ res["a"].stored = {1}
    /\ objs["a"].generation = 0
    /\ Len(consumers["c1"]) = 1
    /\ StoredGen(consumers, "c1") = {1}
    /\ rel["b"].at = "merge" /\ rel["b"].user_uuid = "u1"
    /\ Rels(owns, "pj1", "u1") = 0 /\ Rels(owns, "u1", "c1") = 1
====
